---- MODULE Spec2Model ----
(***************************************************************************)
(* A model of convert_jsx.py: the regex-driven rewriting of JSX return     *)
(* statements into React.createElement calls.  Text is modelled as TLA+    *)
(* strings, character by character; every regular expression of the source *)
(* is modelled by the match Python's backtracking engine selects.          *)
(***************************************************************************)
EXTENDS Integers, Sequences, FiniteSets, TLC

VARIABLES
    content,                \* convert_jsx_to_createElement: the buffer
    protected_expressions,  \* convert_jsx_to_createElement: the table
    pc,                     \* position in convert_jsx_to_createElement
    idx,                    \* the restoration loop's index
    input,                  \* the buffer the call was given
    shape,                  \* how the input of the call was built
    history,                \* the passes and convert_jsx_element calls so far, in order
    subst,                  \* per table entry, the occurrences restoration replaced
    jsx,                    \* convert_jsx_element: its argument
    indent,                 \* convert_jsx_element: its indent argument
    result,                 \* convert_jsx_element: its return value
    attrs_str,              \* parse_attributes: its argument
    attrs,                  \* parse_attributes: the list of emitted entries
    props                   \* parse_attributes: its return value

vars == <<content, protected_expressions, pc, idx, input, shape, history,
          subst, jsx, indent, result, attrs_str, attrs, props>>

pipeVars == <<content, protected_expressions, idx, input, history, subst>>
elemVars == <<jsx, indent, result>>
attrVars == <<attrs_str, attrs, props>>

(***************************************************************************)
(* Bounds of the model.                                                    *)
(***************************************************************************)
MaxFrags == 2        \* fragments concatenated into a pipeline buffer
MaxBraceFrags == 3   \* fragments concatenated into a protect/restore buffer
MaxAttrs == 2        \* attributes in a generated attribute list
MaxChildFrags == 2   \* fragments concatenated into an element's children

(***************************************************************************)
(* Characters and character classes (Python's \s and \w on ASCII text).    *)
(***************************************************************************)
\* s[i-1:i]: the character at 1-based index i, empty outside the text
Ch(s, i) == IF i >= 1 /\ i <= Len(s) THEN SubSeq(s, i, i) ELSE ""

SpaceChars == {" ", "\t", "\n", "\r", "\f"}

WordChars ==
    {"a","b","c","d","e","f","g","h","i","j","k","l","m","n","o","p","q","r",
     "s","t","u","v","w","x","y","z",
     "A","B","C","D","E","F","G","H","I","J","K","L","M","N","O","P","Q","R",
     "S","T","U","V","W","X","Y","Z",
     "0","1","2","3","4","5","6","7","8","9","_"}

IsSpace(c) == c \in SpaceChars
IsWord(c) == c \in WordChars

\* s[i:] starts with lit
StartsWith(s, i, lit) ==
    /\ i >= 1
    /\ i + Len(lit) - 1 <= Len(s)
    /\ SubSeq(s, i, i + Len(lit) - 1) = lit

EndsWith(s, lit) ==
    /\ Len(lit) <= Len(s)
    /\ SubSeq(s, Len(s) - Len(lit) + 1, Len(s)) = lit

\* first index >= i at which lit occurs in s, 0 when there is none (str.find)
Find(s, lit, i) ==
    LET hi == Len(s) - Len(lit) + 1
    IN  IF \E j \in i..hi : StartsWith(s, j, lit)
        THEN CHOOSE j \in i..hi : StartsWith(s, j, lit) /\ \A k \in i..(j - 1) : ~StartsWith(s, k, lit)
        ELSE 0

\* first index >= i whose character is not whitespace (Len(s)+1 at the end): \s*
SpaceEnd(s, i) ==
    CHOOSE j \in i..(Len(s) + 1) : ~IsSpace(Ch(s, j)) /\ \A k \in i..(j - 1) : IsSpace(Ch(s, k))

\* first index >= i whose character is not a word character: \w*
WordEnd(s, i) ==
    CHOOSE j \in i..(Len(s) + 1) : ~IsWord(Ch(s, j)) /\ \A k \in i..(j - 1) : IsWord(Ch(s, k))

\* last index <= i whose character is not whitespace, 0 when there is none
SpaceStartBack(s, i) ==
    CHOOSE j \in 0..i : ~IsSpace(Ch(s, j)) /\ \A k \in (j + 1)..i : IsSpace(Ch(s, k))

\* str.strip()
Strip(s) ==
    LET b == SpaceEnd(s, 1)
        e == SpaceStartBack(s, Len(s))
    IN  IF b > e THEN "" ELSE SubSeq(s, b, e)

\* first index >= i whose character is in the set cs, 0 when there is none
FindAny(s, cs, i) ==
    IF \E j \in i..Len(s) : Ch(s, j) \in cs
    THEN CHOOSE j \in i..Len(s) : Ch(s, j) \in cs /\ \A k \in i..(j - 1) : Ch(s, k) \notin cs
    ELSE 0

\* str.replace(old, new): every non-overlapping occurrence, left to right
RECURSIVE Replace(_, _, _, _)
Replace(s, old, new, i) ==
    LET j == Find(s, old, i)
    IN  IF j = 0 THEN SubSeq(s, i, Len(s))
        ELSE SubSeq(s, i, j - 1) \o new \o Replace(s, old, new, j + Len(old))

\* the occurrences str.replace(old, ...) replaces
RECURSIVE Occurrences(_, _, _)
Occurrences(s, old, i) ==
    LET j == Find(s, old, i)
    IN  IF j = 0 THEN 0 ELSE 1 + Occurrences(s, old, j + Len(old))

\* str(n) for a natural number
Digit(d) == SubSeq("0123456789", d + 1, d + 1)

RECURSIVE Dec(_)
Dec(n) == IF n < 10 THEN Digit(n) ELSE Dec(n \div 10) \o Digit(n % 10)

(***************************************************************************)
(* Expression protection: re.sub(r'\{[^{}]*\}', protect_expression, ...)   *)
(***************************************************************************)
Placeholder(n) == "__PROTECTED_" \o Dec(n) \o "__"

\* protect_expression: the table after the append, and the replacement text
protect_expression(table, matched) ==
    [table |-> Append(table, matched), repl |-> Placeholder(Len(table))]

\* the end of the match of \{[^{}]*\} that starts at i, 0 when there is none
BraceSpanEnd(s, i) ==
    IF Ch(s, i) # "{" THEN 0
    ELSE LET k == FindAny(s, {"{", "}"}, i + 1)
         IN  IF k # 0 /\ Ch(s, k) = "}" THEN k ELSE 0

\* the start of the leftmost match of \{[^{}]*\} at or after i, 0 when there is none
NextBraceSpan(s, i) ==
    IF \E j \in i..Len(s) : BraceSpanEnd(s, j) # 0
    THEN CHOOSE j \in i..Len(s) :
            BraceSpanEnd(s, j) # 0 /\ \A k \in i..(j - 1) : BraceSpanEnd(s, k) = 0
    ELSE 0

\* re.sub from index i on: the text before the next match is copied, the match replaced
RECURSIVE protect_sub(_, _, _, _)
protect_sub(s, i, out, table) ==
    LET b == NextBraceSpan(s, i)
    IN  IF b = 0 THEN [content |-> out \o SubSeq(s, i, Len(s)), table |-> table]
        ELSE LET r == protect_expression(table, SubSeq(s, b, BraceSpanEnd(s, b)))
             IN  protect_sub(s, BraceSpanEnd(s, b) + 1,
                             out \o SubSeq(s, i, b - 1) \o r.repl, r.table)

(***************************************************************************)
(* Attribute Translator: parse_attributes.                                 *)
(***************************************************************************)
\* a regex group: unmatched (None) or matched with a text
NoGroup == [matched |-> FALSE, text |-> ""]
Group(t) == [matched |-> TRUE, text |-> t]

\* Python's truth value of match.group(n): None and '' are both false
Truthy(g) == g.matched /\ g.text # ""

\* the end (exclusive) of (\w+(?:-\w+)*) for a name whose \w+ run starts at i
RECURSIVE NameEnd(_, _)
NameEnd(s, i) ==
    LET e == WordEnd(s, i)
    IN  IF e + 1 <= Len(s) /\ Ch(s, e) = "-" /\ IsWord(Ch(s, e + 1))
        THEN NameEnd(s, e + 1)
        ELSE e

\* the match of  =(?:\{([^}]*)\}|"([^"]*)"|'([^']*)')  at e, delimited by open/close
ValueGroup(s, e, open, close) ==
    LET k == IF StartsWith(s, e, "=" \o open) THEN Find(s, close, e + 2) ELSE 0
    IN  IF k = 0 THEN [g |-> NoGroup, end |-> e]
        ELSE [g |-> Group(SubSeq(s, e + 2, k - 1)), end |-> k + 1]

\* the match of attr_pattern that starts at i (a word character)
attr_match(s, i) ==
    LET e  == NameEnd(s, i)
        v2 == ValueGroup(s, e, "{", "}")
        v3 == ValueGroup(s, e, "\"", "\"")
        v4 == ValueGroup(s, e, "'", "'")
    IN  [name |-> SubSeq(s, i, e - 1),
         g2 |-> v2.g, g3 |-> v3.g, g4 |-> v4.g,
         end |-> IF v2.g.matched THEN v2.end
                 ELSE IF v3.g.matched THEN v3.end
                 ELSE IF v4.g.matched THEN v4.end
                 ELSE e]

\* lines 95-102: the emitted value
attr_value(m) ==
    IF Truthy(m.g2) THEN m.g2.text
    ELSE IF Truthy(m.g3) THEN "'" \o m.g3.text \o "'"
    ELSE IF Truthy(m.g4) THEN "'" \o m.g4.text \o "'"
    ELSE "true"

\* attr_name without the quoting of hyphenated names
attr_name_unquoted(name) ==
    IF name = "class" THEN "className"
    ELSE IF name = "for" THEN "htmlFor"
    ELSE name

\* lines 105-110: the emitted key
attr_name(name) ==
    IF name = "class" THEN "className"
    ELSE IF name = "for" THEN "htmlFor"
    ELSE IF Find(name, "-", 1) # 0 THEN "'" \o name \o "'"
    ELSE name

\* the loop over re.finditer: the list attrs
RECURSIVE attr_list(_, _)
attr_list(s, i) ==
    LET b == FindAny(s, WordChars, i)
    IN  IF b = 0 THEN <<>>
        ELSE LET m == attr_match(s, b)
             IN  <<attr_name(m.name) \o ": " \o attr_value(m)>> \o attr_list(s, m.end)

\* sep.join(parts)
RECURSIVE Join(_, _)
Join(parts, sep) ==
    IF parts = <<>> THEN ""
    ELSE IF Len(parts) = 1 THEN parts[1]
    ELSE parts[1] \o sep \o Join(Tail(parts), sep)

parse_attributes(s) ==
    IF Strip(s) = "" THEN "null"
    ELSE LET found == attr_list(s, 1)
         IN  IF found # <<>> THEN "{ " \o Join(found, ", ") \o " }" ELSE "null"

(***************************************************************************)
(* Children Converter: convert_children.                                   *)
(***************************************************************************)
\* convert_children yielding nothing for children that hold markup
convert_children_markup_dropped(children_str, ind) ==
    IF Find(children_str, "<", 1) = 0
    THEN "'" \o Strip(children_str) \o "'"
    ELSE ""

convert_children(children_str, ind) ==
    IF Find(children_str, "<", 1) = 0
    THEN "'" \o Strip(children_str) \o "'"
    ELSE "'" \o children_str \o "'"

(***************************************************************************)
(* Element Converter: convert_jsx_element.                                 *)
(***************************************************************************)
\* re.match(r'^<(\w+)([^>]*?)\/>\s*$', t) on a stripped t
self_closing_match(t) ==
    LET w == WordEnd(t, 2)
    IN  IF /\ Len(t) >= 4
           /\ Ch(t, 1) = "<"
           /\ w > 2
           /\ EndsWith(t, "/>")
           /\ Find(t, ">", 2) = Len(t)
        THEN [ok |-> TRUE, tag |-> SubSeq(t, 2, w - 1),
              attrs |-> SubSeq(t, w, Len(t) - 2)]
        ELSE [ok |-> FALSE, tag |-> "", attrs |-> ""]

\* whether ^<(\w+)([^>]*?)>([\s\S]*)<\/\1>\s*$ matches t with a tag of k characters
ElementFits(t, k) ==
    LET g == Find(t, ">", k + 2)
    IN  /\ g # 0
        /\ EndsWith(t, "</" \o SubSeq(t, 2, k + 1) \o ">")
        /\ Len(t) - (k + 3) + 1 >= g + 1

\* \w+ is greedy: the longest tag with which the rest of the pattern matches
ElementTagLen(t) ==
    LET w  == WordEnd(t, 2)
        ks == {k \in 1..(w - 2) : ElementFits(t, k)}
    IN  IF Len(t) >= 1 /\ Ch(t, 1) = "<" /\ ks # {}
        THEN CHOOSE k \in ks : \A k2 \in ks : k2 <= k
        ELSE 0

element_match(t) ==
    LET k == ElementTagLen(t)
        g == Find(t, ">", k + 2)
    IN  IF k = 0 THEN [ok |-> FALSE, tag |-> "", attrs |-> "", children |-> ""]
        ELSE [ok |-> TRUE, tag |-> SubSeq(t, 2, k + 1),
              attrs |-> SubSeq(t, k + 2, g - 1),
              children |-> SubSeq(t, g + 1, Len(t) - (k + 3))]

\* the branch convert_jsx_element takes
element_case(j) ==
    IF self_closing_match(Strip(j)).ok THEN "self_closing"
    ELSE IF element_match(Strip(j)).ok THEN "element"
    ELSE "fallback"

TwoArgCall(tag, p) == "React.createElement('" \o tag \o "', " \o p \o ")"

ThreeArgCall(tag, p, children_elements, ind) ==
    "React.createElement(\n" \o ind \o "  '" \o tag \o "',\n" \o ind \o "  " \o p
        \o ",\n" \o ind \o "  " \o children_elements \o "\n" \o ind \o ")"

\* the fallback returning the stripped text the patterns were tried on
fallback_stripped(j) == Strip(j)

\* line 79
fallback_result(j) == j

convert_jsx_element(j, ind) ==
    LET t  == Strip(j)
        sc == self_closing_match(t)
        em == element_match(t)
    IN  IF sc.ok THEN TwoArgCall(sc.tag, parse_attributes(sc.attrs))
        ELSE IF em.ok THEN
            LET p == parse_attributes(em.attrs)
                children_elements ==
                    IF Strip(em.children) # ""
                    THEN convert_children(Strip(em.children), ind \o "  ")
                    ELSE ""
            IN  IF children_elements # ""
                THEN ThreeArgCall(em.tag, p, children_elements, ind)
                ELSE TwoArgCall(em.tag, p)
        ELSE fallback_result(j)

(***************************************************************************)
(* Statement Extractor: the two re.sub passes of lines 29-42.              *)
(***************************************************************************)
NoMatch == [ok |-> FALSE, g1 |-> "", g2 |-> "", end |-> 0]

\* ^ under re.MULTILINE
AtLineStart(s, p) == p = 1 \/ Ch(s, p - 1) = "\n"

\* the first d >= from where  <\/[^>]+>\s*\);  matches; [d, h, end] or ok = FALSE
RECURSIVE CloseTagFrom(_, _)
CloseTagFrom(s, from) ==
    LET d == Find(s, "</", from)
        h == Find(s, ">", d + 2)
        k == SpaceEnd(s, h + 1)
    IN  IF d = 0 THEN [ok |-> FALSE, h |-> 0, end |-> 0]
        ELSE IF h >= d + 3 /\ StartsWith(s, k, ");")
             THEN [ok |-> TRUE, h |-> h, end |-> k + 1]
        ELSE CloseTagFrom(s, d + 1)

\* ^(\s*)return\s+\(\s*\n?\s*(<[\s\S]*?>[\s\S]*?<\/[^>]+>)\s*\);  at p
paren_match(s, p) ==
    LET a == SpaceEnd(s, p)
        b == SpaceEnd(s, a + 6)
        c == SpaceEnd(s, b + 1)
        g == Find(s, ">", c + 1)
        t == CloseTagFrom(s, g + 1)
    IN  IF /\ AtLineStart(s, p)
           /\ StartsWith(s, a, "return")
           /\ b > a + 6
           /\ Ch(s, b) = "("
           /\ Ch(s, c) = "<"
           /\ g # 0
           /\ t.ok
        THEN [ok |-> TRUE, g1 |-> SubSeq(s, p, a - 1),
              g2 |-> SubSeq(s, c, t.h), end |-> t.end]
        ELSE NoMatch

\* ^(\s*)return\s+(<[^;]+>);  at p
inline_match(s, p) ==
    LET a == SpaceEnd(s, p)
        b == SpaceEnd(s, a + 6)
        q == Find(s, ";", b + 1)
    IN  IF /\ AtLineStart(s, p)
           /\ StartsWith(s, a, "return")
           /\ b > a + 6
           /\ Ch(s, b) = "<"
           /\ q >= b + 3
           /\ Ch(s, q - 1) = ">"
        THEN [ok |-> TRUE, g1 |-> SubSeq(s, p, a - 1),
              g2 |-> SubSeq(s, b, q - 1), end |-> q]
        ELSE NoMatch

return_match(kind, s, p) ==
    IF kind = "paren" THEN paren_match(s, p) ELSE inline_match(s, p)

\* convert_return_jsx and the lambda of line 39: the replacement of one match
convert_return_jsx(m) ==
    m.g1 \o "return " \o convert_jsx_element(Strip(m.g2), m.g1 \o "  ") \o ";"

\* the start of the leftmost match of the pattern at or after p, 0 when there is none
NextReturn(kind, s, p) ==
    IF \E q \in p..Len(s) : return_match(kind, s, q).ok
    THEN CHOOSE q \in p..Len(s) :
            return_match(kind, s, q).ok /\ \A k \in p..(q - 1) : ~return_match(kind, s, k).ok
    ELSE 0

\* re.sub over the buffer: the new buffer and the number of matches replaced
RECURSIVE return_sub(_, _, _)
return_sub(kind, s, p) ==
    LET b == NextReturn(kind, s, p)
    IN  IF b = 0 THEN [out |-> SubSeq(s, p, Len(s)), n |-> 0]
        ELSE LET m == return_match(kind, s, b)
                 r == return_sub(kind, s, m.end + 1)
             IN  [out |-> SubSeq(s, p, b - 1) \o convert_return_jsx(m) \o r.out,
                  n |-> r.n + 1]

(***************************************************************************)
(* Inputs.                                                                 *)
(***************************************************************************)
\* the concatenations of at most n fragments of F
RECURSIVE Concats(_, _)
Concats(F, n) ==
    IF n = 0 THEN {""}
    ELSE LET S == Concats(F, n - 1)
         IN  S \cup {a \o f : a \in S, f \in F}

\* pipeline buffers: statements and pieces of statements
PipeFrags ==
    {"return (\n  <div>Hello</div>\n);\n",
     "return <p class=\"a\">{x}</p>;\n",
     "  return <Input value={v} />;\n",
     "return (<br/>);\n",
     "return (<a>\n",
     "</a>);\n",
     "return x + 1;\n",
     "foo({a});\n",
     "{",
     "__PROTECTED_0__",
     "__PROTECTED_0"}

InlineTags == {"Tag", "Input"}
InlineNames == {"name", "value"}
InlineExprs == {"expr", "v", "a.b(1)"}
InlineIndents == {"", "  "}

PipeShapes ==
    {[kind |-> "raw", text |-> b] : b \in Concats(PipeFrags, MaxFrags)}
    \cup
    {[kind |-> "inline_self_closing", ind |-> i, tag |-> t, name |-> n, expr |-> e] :
        i \in InlineIndents, t \in InlineTags, n \in InlineNames, e \in InlineExprs}

PipeBuffer(sh) ==
    IF sh.kind = "raw" THEN sh.text
    ELSE sh.ind \o "return <" \o sh.tag \o " " \o sh.name \o "={" \o sh.expr \o "} />;"

\* protect/restore buffers: braces, text and placeholder-like text
BraceFrags == {"{", "}", "a", "{b}", "__PROTECTED_0__", "__PROTECTED_1__", "__PROTECTED_0"}

BraceShapes == {[kind |-> "raw", text |-> b] : b \in Concats(BraceFrags, MaxBraceFrags)}

\* attribute lists
AttrNames == {"class", "for", "data-x", "onClick"}
ValueKinds == {"expr", "dq", "sq", "none"}
StringTexts == {"", "a b"}
ExprTexts == {"fn", "a + b"}

AttrSpecs ==
    {a \in [name : AttrNames, vk : ValueKinds, text : StringTexts \cup ExprTexts] :
        /\ a.vk = "none" => a.text = ""
        /\ a.vk = "expr" => a.text \in ExprTexts
        /\ a.vk \in {"dq", "sq"} => a.text \in StringTexts}

RECURSIVE AttrLists(_)
AttrLists(n) ==
    IF n = 0 THEN {<<>>}
    ELSE LET S == AttrLists(n - 1)
         IN  S \cup {Append(l, a) : l \in S, a \in AttrSpecs}

ExampleAttrs ==
    <<[name |-> "class", vk |-> "dq", text |-> "a"],
      [name |-> "data-x", vk |-> "dq", text |-> "y"],
      [name |-> "onClick", vk |-> "expr", text |-> "fn"]>>

AttrShapes ==
    {[kind |-> "attrs", list |-> l, pad |-> p] :
        l \in AttrLists(MaxAttrs) \cup {ExampleAttrs}, p \in {"", " "}}

RenderAttr(a) ==
    a.name \o (CASE a.vk = "expr" -> "={" \o a.text \o "}"
                 [] a.vk = "dq"   -> "=\"" \o a.text \o "\""
                 [] a.vk = "sq"   -> "='" \o a.text \o "'"
                 [] a.vk = "none" -> "")

RenderAttrs(l) == Join([i \in 1..Len(l) |-> RenderAttr(l[i])], " ")

\* elements
ElemTags == {"div", "di", "br"}
ElemAttrs == {"", " id=\"m\"", " value={v} ", " class=\"a\" disabled", " id=\"m\" /"}
ChildFrags == {" ", "Hello", "<b/>", "\n", "</div>"}
ElemIndents == {"", "  "}
ElemPads == {"", " "}
RawElems == {"", "foo", "x + 1", "<>", "< a/>", "<a", "a/>", "<a>x", "<a b>", "</div>", "<a/>;"}

ElemShapes ==
    {[kind |-> "element", tag |-> t, close |-> c, attrs |-> a, children |-> ch, ind |-> i] :
        t \in ElemTags, c \in ElemTags, a \in ElemAttrs,
        ch \in Concats(ChildFrags, MaxChildFrags), i \in ElemIndents}
    \cup
    {[kind |-> "self_closing", tag |-> t, attrs |-> a, pad |-> p, ind |-> i] :
        t \in ElemTags, a \in ElemAttrs, p \in ElemPads, i \in ElemIndents}
    \cup
    {[kind |-> "raw", text |-> r, pad |-> p, ind |-> i] :
        r \in RawElems, p \in ElemPads, i \in ElemIndents}

ElemText(sh) ==
    CASE sh.kind = "element" ->
            "<" \o sh.tag \o sh.attrs \o ">" \o sh.children \o "</" \o sh.close \o ">"
      [] sh.kind = "self_closing" ->
            sh.pad \o "<" \o sh.tag \o sh.attrs \o "/>" \o sh.pad
      [] sh.kind = "raw" -> sh.pad \o sh.text \o sh.pad

(***************************************************************************)
(* convert_jsx_to_createElement as a state machine.                        *)
(***************************************************************************)
PipeIdle ==
    /\ content = "" /\ protected_expressions = <<>> /\ idx = 0
    /\ input = "" /\ history = <<>> /\ subst = <<>>
ElemIdle == jsx = "" /\ indent = "" /\ result = ""
AttrIdle == attrs_str = "" /\ attrs = <<>> /\ props = ""

InitBuffer(shapes) ==
    /\ shape \in shapes
    /\ input = PipeBuffer(shape)
    /\ content = input
    /\ protected_expressions = <<>>
    /\ pc = "protect"
    /\ idx = 0
    /\ history = <<>>
    /\ subst = <<>>
    /\ ElemIdle
    /\ AttrIdle

Init == InitBuffer(PipeShapes)

\* the two substitution passes in the other order
NextPassInlineFirst(p) ==
    CASE p = "protect" -> "inline"
      [] p = "inline"  -> "paren"
      [] p = "paren"   -> "restore"
      [] p = "restore" -> "done"

\* the order of the statements of lines 16-48
NextPass(p) ==
    CASE p = "protect" -> "paren"
      [] p = "paren"   -> "inline"
      [] p = "inline"  -> "restore"
      [] p = "restore" -> "done"

\* n convert_jsx_element calls
Calls(n) == [i \in 1..n |-> "convert"]

\* line 16
ProtectTo(next) ==
    /\ pc = "protect"
    /\ LET r == protect_sub(content, 1, "", <<>>)
       IN  /\ content' = r.content
           /\ protected_expressions' = r.table
           /\ subst' = [n \in 1..Len(r.table) |-> 0]
    /\ history' = Append(history, "protect")
    /\ pc' = next
    /\ UNCHANGED <<idx, input, shape, elemVars, attrVars>>

Protect == ProtectTo(NextPass("protect"))

\* lines 29-34 and 37-42
ReturnPass(kind) ==
    /\ pc = kind
    /\ LET r == return_sub(kind, content, 1)
       IN  /\ content' = r.out
           /\ history' = Append(history, kind) \o Calls(r.n)
    /\ pc' = NextPass(kind)
    /\ UNCHANGED <<protected_expressions, idx, input, shape, subst, elemVars, attrVars>>

ParenReturns == ReturnPass("paren")

InlineReturns == ReturnPass("inline")

\* lines 45-46: one iteration of the restoration loop
RestoreStep ==
    /\ pc = "restore"
    /\ idx < Len(protected_expressions)
    /\ content' = Replace(content, Placeholder(idx), protected_expressions[idx + 1], 1)
    /\ subst' = [subst EXCEPT ![idx + 1] = Occurrences(content, Placeholder(idx), 1)]
    /\ idx' = idx + 1
    /\ history' = Append(history, "restore")
    /\ UNCHANGED <<protected_expressions, pc, input, shape, elemVars, attrVars>>

\* line 48
Return ==
    /\ pc = "restore"
    /\ idx = Len(protected_expressions)
    /\ pc' = NextPass("restore")
    /\ UNCHANGED <<pipeVars, shape, elemVars, attrVars>>

Next == Protect \/ ParenReturns \/ InlineReturns \/ RestoreStep \/ Return

Spec == Init /\ [][Next]_vars

(***************************************************************************)
(* Protection immediately followed by restoration (lines 9-16, 44-48).     *)
(***************************************************************************)
InitPR == InitBuffer(BraceShapes)

ProtectOnly == ProtectTo("restore")

NextPR == ProtectOnly \/ RestoreStep \/ Return

SpecPR == InitPR /\ [][NextPR]_vars

(***************************************************************************)
(* convert_jsx_element called on its own.                                  *)
(***************************************************************************)
InitElem ==
    /\ shape \in ElemShapes
    /\ jsx = ElemText(shape)
    /\ indent = shape.ind
    /\ result = ""
    /\ pc = "call_element"
    /\ PipeIdle
    /\ AttrIdle

ConvertElement ==
    /\ pc = "call_element"
    /\ result' = convert_jsx_element(jsx, indent)
    /\ pc' = "ret_element"
    /\ UNCHANGED <<jsx, indent, shape, pipeVars, attrVars>>

NextElem == ConvertElement

SpecElem == InitElem /\ [][NextElem]_vars

(***************************************************************************)
(* parse_attributes called on its own.                                     *)
(***************************************************************************)
InitAttr ==
    /\ shape \in AttrShapes
    /\ attrs_str = shape.pad \o RenderAttrs(shape.list) \o shape.pad
    /\ attrs = <<>>
    /\ props = ""
    /\ pc = "call_attrs"
    /\ PipeIdle
    /\ ElemIdle

ParseAttributes ==
    /\ pc = "call_attrs"
    /\ attrs' = IF Strip(attrs_str) = "" THEN <<>> ELSE attr_list(attrs_str, 1)
    /\ props' = parse_attributes(attrs_str)
    /\ pc' = "ret_attrs"
    /\ UNCHANGED <<attrs_str, shape, pipeVars, elemVars>>

NextAttr == ParseAttributes

SpecAttr == InitAttr /\ [][NextAttr]_vars

(***************************************************************************)
(* Properties.                                                             *)
(***************************************************************************)

\* C1: protecting all brace spans and then immediately restoring them in table
\* order, with no extraction step in between, yields the original buffer
\* character for character, for every buffer.
C1_ProtectRestoreIdentity == pc = "done" => content = input

\* C2: the whole pipeline rewrites `return <Tag name={expr} />;` to
\* `return React.createElement('Tag', { name: expr });` for every tag,
\* attribute name and brace-free expr.
C2_InlineSelfClosingRewritten ==
    (pc = "done" /\ shape.kind = "inline_self_closing") =>
        content = shape.ind \o "return React.createElement('" \o shape.tag \o "', { "
                      \o shape.name \o ": " \o shape.expr \o " });"

\* a return statement whose body starts as JSX does: return <...  or  return (<...
HasJsxReturn(s) ==
    \E i \in 1..Len(s) :
        /\ StartsWith(s, i, "return")
        /\ SpaceEnd(s, i + 6) > i + 6
        /\ \/ Ch(s, SpaceEnd(s, i + 6)) = "<"
           \/ /\ Ch(s, SpaceEnd(s, i + 6)) = "("
              /\ Ch(s, SpaceEnd(s, SpaceEnd(s, i + 6) + 1)) = "<"

NonJsxStatements == {"return x + 1;\n", "foo({a});\n"}

\* C3: the pipeline changes only the text of return statements whose body is
\* JSX: a statement before them stays unchanged in its place, and a buffer
\* with no JSX return statement is returned byte-for-byte identical.
C3_OnlyJsxReturnsChange ==
    pc = "done" =>
        /\ ~HasJsxReturn(input) => content = input
        /\ \A st \in NonJsxStatements :
               StartsWith(input, 1, st) => StartsWith(content, 1, st)

\* the key the name of a source attribute is emitted under
ExpectedKey(name) ==
    CASE name = "class" -> "className"
      [] name = "for" -> "htmlFor"
      [] Find(name, "-", 1) # 0 -> "'" \o name \o "'"
      [] OTHER -> name

\* the value the kind of a source value calls for
ExpectedValue(a) ==
    CASE a.vk = "expr" -> a.text
      [] a.vk \in {"dq", "sq"} -> "'" \o a.text \o "'"
      [] a.vk = "none" -> "true"

\* C4: the emitted value of every attribute is decided by the kind of its
\* source value: {expr} gives expr verbatim, "text" and 'text' give 'text' for
\* every text (the empty one included), and true is emitted only for an
\* attribute with no =value part.
C4_ValueByKind ==
    pc = "ret_attrs" =>
        /\ Len(attrs) = Len(shape.list)
        /\ \A i \in 1..Len(shape.list) :
               attrs[i] = ExpectedKey(shape.list[i].name) \o ": "
                              \o ExpectedValue(shape.list[i])

\* the text of entry e after its key
EntryValue(e, key) == SubSeq(e, Len(key) + 3, Len(e))

\* C5: null for an empty attribute list, otherwise a mapping literal with one
\* entry per attribute occurrence, in source order, repeated names kept, each
\* key being the source name rewritten (class, for, hyphenated, other).
C5_EntriesInOrder ==
    pc = "ret_attrs" =>
        /\ shape.list = <<>> => props = "null"
        /\ shape.list # <<>> =>
            /\ Len(attrs) = Len(shape.list)
            /\ \A i \in 1..Len(shape.list) :
                   StartsWith(attrs[i], 1, ExpectedKey(shape.list[i].name) \o ": ")
            /\ props = "{ " \o Join([i \in 1..Len(shape.list) |->
                                       ExpectedKey(shape.list[i].name) \o ": "
                                         \o EntryValue(attrs[i], ExpectedKey(shape.list[i].name))],
                                    ", ") \o " }"
        /\ shape.list = ExampleAttrs =>
               props = "{ className: 'a', 'data-x': 'y', onClick: fn }"

C5_Witness ==
    /\ pc = "ret_attrs"
    /\ shape.list = ExampleAttrs
    /\ props = "{ className: 'a', 'data-x': 'y', onClick: fn }"

\* the first single-quoted text of a call expression: its tag literal
EmittedTag(r) ==
    LET a == Find(r, "'", 1)
        b == Find(r, "'", a + 1)
    IN  SubSeq(r, a + 1, b - 1)

\* C6: the open/close case is taken only when the closing name equals the
\* opening tag's full name, which is then the tag literal emitted; every
\* <X attrs>children</Y> with Y different from X (a proper prefix of X
\* included) is returned unchanged.
C6_MismatchedCloseUnchanged ==
    (pc = "ret_element" /\ shape.kind = "element") =>
        /\ element_case(jsx) = "element" =>
               shape.close = shape.tag /\ EmittedTag(result) = shape.tag
        /\ shape.close # shape.tag => result = jsx

\* the three-argument call for a tag, its translated attributes and a children text
C7_ThreeArg(tag, at, children, ind) ==
    "React.createElement(\n" \o ind \o "  '" \o tag \o "',\n" \o ind \o "  "
        \o parse_attributes(at) \o ",\n" \o ind \o "  '" \o children \o "'\n" \o ind \o ")"

\* C7: <Tag attrs>children</Tag> gives the three-argument call, its third
\* argument the single-quoted trimmed children, exactly when the trimmed
\* children are non-empty; otherwise it gives the string <Tag attrs/> gives
\* (<br></br> and <br/> both give React.createElement('br', null)).
C7_ChildrenDecideArity ==
    pc = "ret_element" =>
        /\ (shape.kind = "element" /\ shape.close = shape.tag) =>
               IF Strip(shape.children) # ""
               THEN result = C7_ThreeArg(shape.tag, shape.attrs, Strip(shape.children), indent)
               ELSE result = convert_jsx_element("<" \o shape.tag \o shape.attrs \o "/>", indent)
        /\ Strip(jsx) \in {"<br></br>", "<br/>"} => result = "React.createElement('br', null)"

C7_Witness ==
    /\ pc = "ret_element"
    /\ jsx = "<div>Hello</div>"
    /\ indent = ""
    /\ result = "React.createElement(\n  'div',\n  null,\n  'Hello'\n)"

\* t has the form <Tag attrs/>: a tag of word characters, attributes without >
SelfClosingShape(t) ==
    \E k \in 1..Len(t) :
        /\ Len(t) >= k + 3
        /\ Ch(t, 1) = "<"
        /\ \A i \in 2..(k + 1) : IsWord(Ch(t, i))
        /\ \A i \in (k + 2)..(Len(t) - 2) : Ch(t, i) # ">"
        /\ Ch(t, Len(t) - 1) = "/"
        /\ Ch(t, Len(t)) = ">"

\* t has the form <Tag attrs>children</Tag> for some split into tag, attrs, children
ElementShape(t) ==
    \E k \in 1..Len(t) : \E g \in (k + 2)..Len(t) :
        /\ Ch(t, 1) = "<"
        /\ \A i \in 2..(k + 1) : IsWord(Ch(t, i))
        /\ \A i \in (k + 2)..(g - 1) : Ch(t, i) # ">"
        /\ Ch(t, g) = ">"
        /\ g + k + 3 <= Len(t)
        /\ SubSeq(t, Len(t) - k - 2, Len(t)) = "</" \o SubSeq(t, 2, k + 1) \o ">"

\* C8: the Element Converter has no error outcome: an input of self-closing
\* form gives a call, else one of open/close form gives a call, and an input
\* of neither form is returned exactly as given.
C8_TotalWithFallback ==
    pc = "ret_element" =>
        LET t == Strip(jsx)
        IN  /\ SelfClosingShape(t) =>
                   StartsWith(result, 1, "React.createElement('") /\ EndsWith(result, ")")
            /\ (~SelfClosingShape(t) /\ ElementShape(t)) =>
                   StartsWith(result, 1, "React.createElement(") /\ EndsWith(result, ")")
            /\ (~SelfClosingShape(t) /\ ~ElementShape(t)) => result = jsx

C8_Witness ==
    /\ pc = "ret_element"
    /\ jsx = " x + 1 "
    /\ result = " x + 1 "

\* the brace spans with no brace inside: <<first, last>> index pairs
Spans(s) ==
    {sp \in (1..Len(s)) \X (1..Len(s)) :
        /\ sp[1] < sp[2]
        /\ Ch(s, sp[1]) = "{"
        /\ Ch(s, sp[2]) = "}"
        /\ \A k \in (sp[1] + 1)..(sp[2] - 1) : Ch(s, k) \notin {"{", "}"}}

\* the n-th span from the left, counted from 0
SpanAt(s, n) ==
    CHOOSE sp \in Spans(s) : Cardinality({o \in Spans(s) : o[1] < sp[1]}) = n

\* s up to the end of its n-th span, with the spans 0..n-1 replaced by their tokens
RECURSIVE Masked(_, _)
Masked(s, n) ==
    IF n = 0 THEN ""
    ELSE LET from == IF n = 1 THEN 1 ELSE SpanAt(s, n - 2)[2] + 1
         IN  Masked(s, n - 1) \o SubSeq(s, from, SpanAt(s, n - 1)[1] - 1)
                 \o "__PROTECTED_" \o Dec(n - 1) \o "__"

MaskedAll(s) ==
    LET k == Cardinality(Spans(s))
        from == IF k = 0 THEN 1 ELSE SpanAt(s, k - 1)[2] + 1
    IN  Masked(s, k) \o SubSeq(s, from, Len(s))

\* C9: after protection the table holds the k nest-free brace spans in order
\* and the buffer holds __PROTECTED_n__ for the n-th; after restoration no such
\* placeholder remains and every table entry was substituted exactly once.
C9_PlaceholdersOneToOne ==
    /\ pc = "paren" =>
        /\ Len(protected_expressions) = Cardinality(Spans(input))
        /\ \A n \in 1..Len(protected_expressions) :
               protected_expressions[n] =
                   SubSeq(input, SpanAt(input, n - 1)[1], SpanAt(input, n - 1)[2])
        /\ content = MaskedAll(input)
    /\ pc = "done" =>
        \A n \in 1..Len(protected_expressions) :
            /\ subst[n] = 1
            /\ Find(content, "__PROTECTED_" \o Dec(n - 1) \o "__", 1) = 0

\* the stage a run is in after an event of its history
StageStep(st, e) ==
    CASE st = "start" /\ e = "protect" -> "protected"
      [] st = "protected" /\ e = "paren" -> "paren_pass"
      [] st = "paren_pass" /\ e = "convert" -> "paren_pass"
      [] st = "paren_pass" /\ e = "inline" -> "inline_pass"
      [] st = "inline_pass" /\ e = "convert" -> "inline_pass"
      [] st \in {"inline_pass", "restoring"} /\ e = "restore" -> "restoring"
      [] OTHER -> "out_of_order"

RECURSIVE StageAfter(_, _)
StageAfter(h, st) ==
    IF h = <<>> THEN st ELSE StageAfter(Tail(h), StageStep(st, Head(h)))

\* C10: the passes run once each in the order protect, parenthesized returns,
\* inline returns, restore; the Element Converter is called only during the
\* two substitution passes, and nothing is restored before both are complete.
C10_PassOrder ==
    LET st == StageAfter(history, "start")
    IN  /\ st # "out_of_order"
        /\ pc = "protect" => st = "start"
        /\ pc = "paren" => st = "protected"
        /\ pc = "inline" => st = "paren_pass"
        /\ pc \in {"restore", "done"} => st \in {"inline_pass", "restoring"}
        /\ pc = "done" =>
               Cardinality({i \in 1..Len(history) : history[i] = "restore"})
                   = Len(protected_expressions)

C10_Witness ==
    /\ pc = "done"
    /\ Len(protected_expressions) > 0
    /\ \E i, j, k, l \in 1..Len(history) :
        /\ i < j /\ j < k /\ k < l
        /\ history[i] = "paren" /\ history[j] = "convert"
        /\ history[k] = "inline" /\ history[l] = "convert"

====
